---- MODULE Spec2Model ----
(***************************************************************************)
(* A model of jlogger: the level filter, the boot-time timer, the dual     *)
(* destination writer and the builder that installs the global logger.     *)
(***************************************************************************)
EXTENDS Integers, Sequences, FiniteSets, TLC

VARIABLES
    lv,       \* harness of the level conversions (level.rs)
    wr,       \* harness of one JloggerWriter::write / flush call (writer.rs)
    tm,       \* harness of JloggerTimer::new (timer.rs)
    env,      \* the process environment's JLOGGER_LEVEL
    logger,   \* the global subscriber installed by build(), or NoLogger
    path,     \* the inode the log path names, 0 when no file is there
    files,    \* the contents of every inode ever created, by inode number
    console,  \* the bytes stderr has received
    lock,     \* the holder of the RwLock<File> write lock, or NoThread
    thr,      \* per thread: its position in the backbone's write_all loop
    recs,     \* history: every event handed to the logger
    bld,      \* history: every build() call and how it ended
    run       \* the number of the running process

hvars == <<lv, wr, tm>>
mvars == <<env, logger, path, files, console, lock, thr, recs, bld, run>>
vars == <<lv, wr, tm, env, logger, path, files, console, lock, thr, recs, bld, run>>

Range(s) == {s[i] : i \in 1..Len(s)}

Min(a, b) == IF a <= b THEN a ELSE b

(***************************************************************************)
(* level.rs                                                                *)
(***************************************************************************)

\* enum LevelFilter, in declaration order
LevelFilter == {"OFF", "ERROR", "WARN", "INFO", "DEBUG", "TRACE"}

\* #[derive(PartialOrd)] on LevelFilter compares the declaration positions
LevelFilterOrd(l) ==
    CASE l = "OFF" -> 0
      [] l = "ERROR" -> 1
      [] l = "WARN" -> 2
      [] l = "INFO" -> 3
      [] l = "DEBUG" -> 4
      [] l = "TRACE" -> 5

\* the backbone's filter values
TraceLevelFilter ==
    {"TraceOFF", "TraceERROR", "TraceWARN", "TraceINFO", "TraceDEBUG", "TraceTRACE"}

\* the levels an event can carry (tracing::Level)
Level == {"ERROR", "WARN", "INFO", "DEBUG", "TRACE"}

\* the backbone keeps a level as a verbosity index, most verbose first
LevelAsUsize(l) ==
    CASE l = "TRACE" -> 0
      [] l = "DEBUG" -> 1
      [] l = "INFO" -> 2
      [] l = "WARN" -> 3
      [] l = "ERROR" -> 4

\* and a filter the same way, OFF after every level
FilterAsUsize(f) ==
    CASE f = "TraceTRACE" -> 0
      [] f = "TraceDEBUG" -> 1
      [] f = "TraceINFO" -> 2
      [] f = "TraceWARN" -> 3
      [] f = "TraceERROR" -> 4
      [] f = "TraceOFF" -> 5

\* the backbone's order on filters: f < g
TraceFilterLt(f, g) == FilterAsUsize(g) < FilterAsUsize(f)

\* a bug that reads the verbosity index the wrong way round
LevelLeFilter_Inverted(l, f) == LevelAsUsize(l) <= FilterAsUsize(f)

\* meta.level() <= &level
LevelLeFilter(l, f) == FilterAsUsize(f) <= LevelAsUsize(l)

\* impl From<LevelFilter> for TraceLevelFilter
TraceLevelFilterFrom(level) ==
    CASE level = "OFF" -> "TraceOFF"
      [] level = "ERROR" -> "TraceERROR"
      [] level = "WARN" -> "TraceWARN"
      [] level = "INFO" -> "TraceINFO"
      [] level = "DEBUG" -> "TraceDEBUG"
      [] level = "TRACE" -> "TraceTRACE"

\* a bug that accepts the upper-case spelling of debug as well
LevelFilterFromString_AnyCase(s) ==
    CASE s = "off" -> "OFF"
      [] s = "error" -> "ERROR"
      [] s = "warn" -> "WARN"
      [] s = "info" -> "INFO"
      [] s \in {"debug", "DEBUG"} -> "DEBUG"
      [] s = "trace" -> "TRACE"
      [] OTHER -> "OFF"

\* impl From<String> for LevelFilter: an exact match on the text
LevelFilterFromString(s) ==
    CASE s = "off" -> "OFF"
      [] s = "error" -> "ERROR"
      [] s = "warn" -> "WARN"
      [] s = "info" -> "INFO"
      [] s = "debug" -> "DEBUG"
      [] s = "trace" -> "TRACE"
      [] OTHER -> "OFF"

\* the texts the conversions are tried on
LevelTexts ==
    {"off", "error", "warn", "info", "debug", "trace",
     "", "DEBUG", "Info", " debug", "debug ", "verbose", "OFF", "5"}

NoLevel == "none"

LevelIdle == [pc |-> "idle", s1 |-> "", s2 |-> "", l1 |-> NoLevel, l2 |-> NoLevel,
              f1 |-> NoLevel, f2 |-> NoLevel]

\* two strings are parsed
LevelParse ==
    /\ lv.pc = "start"
    /\ lv' = [lv EXCEPT !.pc = "parsed",
                        !.l1 = LevelFilterFromString(lv.s1),
                        !.l2 = LevelFilterFromString(lv.s2)]
    /\ UNCHANGED <<wr, tm>>
    /\ UNCHANGED mvars

\* and the two levels are turned into the backbone's filters
LevelInto ==
    /\ lv.pc = "parsed"
    /\ lv' = [lv EXCEPT !.pc = "done",
                        !.f1 = TraceLevelFilterFrom(lv.l1),
                        !.f2 = TraceLevelFilterFrom(lv.l2)]
    /\ UNCHANGED <<wr, tm>>
    /\ UNCHANGED mvars

(***************************************************************************)
(* writer.rs: JloggerWriter                                                *)
(***************************************************************************)

\* Option<&RwLock<File>>::None, and an absent inode
NoFile == 0

\* the outcome of one write or flush of a destination that fails
IoErr == -1

\* JloggerWriter { log_file, log_console }
JloggerWriter(log_file, log_console) ==
    [log_file |-> log_file, log_console |-> log_console]

\* the count write() reports, from the two counts (0 for a destination that
\* is not active) and the buffer's length
WriteCount(write_file, write_console, buflen) ==
    IF write_file > 0 /\ write_console > 0
    THEN Min(write_file, write_console)
    ELSE IF write_file > 0 THEN write_file
    ELSE IF write_console > 0 THEN write_console
    ELSE buflen

\* a bug that drops the console's error and counts it as nothing written
JloggerWriterWrite_Swallow(w, buflen, fres, cres) ==
    LET write_file == IF w.log_file = NoFile THEN 0 ELSE fres
        write_console == IF w.log_console /\ cres # IoErr THEN cres ELSE 0
    IN  IF write_file = IoErr
        THEN [ok |-> FALSE, n |-> 0, toFile |-> 0, toConsole |-> 0]
        ELSE [ok |-> TRUE, n |-> WriteCount(write_file, write_console, buflen),
              toFile |-> write_file, toConsole |-> write_console]

\* JloggerWriter::write on a buffer of buflen bytes; fres and cres are what
\* the file's and stderr's own write answer when asked: a count or IoErr.
\* toFile and toConsole are the bytes each destination took.
JloggerWriterWrite(w, buflen, fres, cres) ==
    LET write_file == IF w.log_file = NoFile THEN 0 ELSE fres
    IN  IF write_file = IoErr
        THEN [ok |-> FALSE, n |-> 0, toFile |-> 0, toConsole |-> 0]
        ELSE LET write_console == IF w.log_console THEN cres ELSE 0
             IN  IF write_console = IoErr
                 THEN [ok |-> FALSE, n |-> 0, toFile |-> write_file, toConsole |-> 0]
                 ELSE [ok |-> TRUE,
                       n |-> WriteCount(write_file, write_console, buflen),
                       toFile |-> write_file, toConsole |-> write_console]

\* JloggerWriter::flush; fok and cok tell whether the file's and stderr's
\* flush succeed when asked. file and console tell which were flushed.
JloggerWriterFlush(w, fok, cok) ==
    IF w.log_file # NoFile /\ ~fok
    THEN [ok |-> FALSE, file |-> FALSE, console |-> FALSE]
    ELSE IF w.log_console
         THEN [ok |-> cok, file |-> w.log_file # NoFile, console |-> cok]
         ELSE [ok |-> TRUE, file |-> w.log_file # NoFile, console |-> FALSE]

\* the longest buffer the write harness tries
MaxBuf == 3

WriteOutcomes(buflen) == (0..buflen) \cup {IoErr}

NoResult == [ok |-> FALSE, n |-> 0, toFile |-> 0, toConsole |-> 0]

NoFlush == [ok |-> FALSE, file |-> FALSE, console |-> FALSE]

WriteIdle == [pc |-> "idle", w |-> JloggerWriter(NoFile, FALSE), buflen |-> 0,
              fres |-> 0, cres |-> 0, ret |-> NoResult,
              ffl |-> TRUE, cfl |-> TRUE, fl |-> NoFlush]

\* one write call on the writer and buffer drawn at the start
WriteCall ==
    /\ wr.pc = "start"
    /\ wr' = [wr EXCEPT !.pc = "written",
                        !.ret = JloggerWriterWrite(wr.w, wr.buflen, wr.fres, wr.cres)]
    /\ UNCHANGED <<lv, tm>>
    /\ UNCHANGED mvars

\* and one flush call on the same writer
FlushCall ==
    /\ wr.pc = "written"
    /\ \E f \in BOOLEAN, c \in BOOLEAN :
         wr' = [wr EXCEPT !.pc = "flushed", !.ffl = f, !.cfl = c,
                          !.fl = JloggerWriterFlush(wr.w, f, c)]
    /\ UNCHANGED <<lv, tm>>
    /\ UNCHANGED mvars

(***************************************************************************)
(* timer.rs: JloggerTimer::new                                             *)
(***************************************************************************)

\* a text is a sequence of one-character strings
WhiteSpace == {" ", "\t"}

Digits == {"0", "1", "2", "3", "4", "5", "6", "7", "8", "9"}

DigitVal(c) ==
    CASE c = "0" -> 0 [] c = "1" -> 1 [] c = "2" -> 2 [] c = "3" -> 3 [] c = "4" -> 4
      [] c = "5" -> 5 [] c = "6" -> 6 [] c = "7" -> 7 [] c = "8" -> 8 [] c = "9" -> 9

\* buf.starts_with(prefix)
StartsWith(text, prefix) ==
    /\ Len(text) >= Len(prefix)
    /\ SubSeq(text, 1, Len(prefix)) = prefix

RECURSIVE SplitFrom(_, _, _)
SplitFrom(text, cur, acc) ==
    IF text = <<>>
    THEN (IF cur = <<>> THEN acc ELSE Append(acc, cur))
    ELSE IF Head(text) \in WhiteSpace
         THEN SplitFrom(Tail(text), <<>>, IF cur = <<>> THEN acc ELSE Append(acc, cur))
         ELSE SplitFrom(Tail(text), Append(cur, Head(text)), acc)

\* buf.split_whitespace().collect(): the non-empty runs between white space
SplitWhitespace(text) == SplitFrom(text, <<>>, <<>>)

RECURSIVE DigitsValue(_, _)
DigitsValue(ds, acc) ==
    IF ds = <<>> THEN acc ELSE DigitsValue(Tail(ds), acc * 10 + DigitVal(Head(ds)))

\* str::parse::<i64>: an optional sign and then one digit or more (the
\* tokens tried here are too short to overflow an i64)
ParseI64(tok) ==
    LET signed == tok # <<>> /\ Head(tok) \in {"+", "-"}
        ds == IF signed THEN Tail(tok) ELSE tok
    IN  IF ds = <<>> \/ \E i \in 1..Len(ds) : ds[i] \notin Digits
        THEN [ok |-> FALSE, v |-> 0]
        ELSE [ok |-> TRUE,
              v |-> IF signed /\ Head(tok) = "-" THEN 0 - DigitsValue(ds, 0)
                    ELSE DigitsValue(ds, 0)]

Btime == <<"b", "t", "i", "m", "e">>

\* what one read_line of /proc/stat gives: a line, an error that consumes
\* the bad bytes ("skip"), or an error that every later call repeats ("stuck")
ReadLine(text) == [err |-> "none", text |-> text]

ReadErrSkip == [err |-> "skip", text |-> <<>>]

ReadErrStuck == [err |-> "stuck", text |-> <<>>]

TimerOk(system_start) == [status |-> "ok", system_start |-> system_start]

TimerPanic == [status |-> "panic", system_start |-> 0]

TimerHang == [status |-> "hang", system_start |-> 0]

\* break v[1].parse::<i64>().unwrap(): indexing past the end panics, and so
\* does unwrap on a parse error
BtimeValue(now, text) ==
    LET v == SplitWhitespace(text)
    IN  IF Len(v) < 2 THEN TimerPanic
        ELSE IF ParseI64(v[2]).ok THEN TimerOk(ParseI64(v[2]).v) ELSE TimerPanic

RECURSIVE ReadLoop(_, _)
\* the loop over read_line: Ok(0) at the end of the file breaks with now, a
\* line starting with btime breaks with its value, an Err reads again
ReadLoop(now, reads) ==
    IF reads = <<>> THEN TimerOk(now)
    ELSE IF Head(reads).err = "stuck" THEN TimerHang
    ELSE IF Head(reads).err = "skip" THEN ReadLoop(now, Tail(reads))
    ELSE IF StartsWith(Head(reads).text, Btime) THEN BtimeValue(now, Head(reads).text)
    ELSE ReadLoop(now, Tail(reads))

\* JloggerTimer::new: system_start, or how the call fails to return
JloggerTimerNew(now, stat) ==
    IF stat.open THEN ReadLoop(now, stat.reads) ELSE TimerOk(now)

LineCpu == <<"c", "p", "u", " ", "1">>

LineBtime == <<"b", "t", "i", "m", "e", " ", "1", "2">>

LineBtimeBare == <<"b", "t", "i", "m", "e">>

LineBtimeWord == <<"b", "t", "i", "m", "e", " ", "x">>

LineBtimeTab == <<"b", "t", "i", "m", "e", "\t", "7">>

LineBtimeNeg == <<"b", "t", "i", "m", "e", " ", "-", "3">>

LineBtimeMore == <<"b", "t", "i", "m", "e", " ", "5", " ", "6">>

LineIndented == <<" ", "b", "t", "i", "m", "e", " ", "9">>

LineBtimes == <<"b", "t", "i", "m", "e", "s", " ", "4">>

LineBlank == <<>>

LineBtimeTail == <<"b", "t", "i", "m", "e", " ", "1", "x">>

\* the lines /proc/stat is made of in the timer harness
TimerLines ==
    {LineCpu, LineBtime, LineBtimeBare, LineBtimeWord, LineBtimeTab, LineBtimeNeg,
     LineBtimeMore, LineIndented, LineBtimes, LineBlank, LineBtimeTail}

TimerReads == {ReadLine(t) : t \in TimerLines} \cup {ReadErrSkip, ReadErrStuck}

\* the most reads one /proc/stat of the harness answers before its end
MaxStatReads == 2

SeqsUpTo(S, n) == UNION {[1..k -> S] : k \in 0..n}

\* the wall clock at construction
Nows == {1000, 1001}

TimerIdle == [pc |-> "idle", now |-> 0, stat |-> [open |-> FALSE, reads |-> <<>>],
              res |-> TimerOk(0)]

\* JloggerTimer::new on the /proc/stat drawn at the start
TimerNew ==
    /\ tm.pc = "start"
    /\ tm' = [tm EXCEPT !.pc = CASE JloggerTimerNew(tm.now, tm.stat).status = "ok" -> "done"
                                 [] JloggerTimerNew(tm.now, tm.stat).status = "panic" -> "panicked"
                                 [] OTHER -> "spinning",
                        !.res = JloggerTimerNew(tm.now, tm.stat)]
    /\ UNCHANGED <<lv, wr>>
    /\ UNCHANGED mvars

(***************************************************************************)
(* writer.rs: JloggerMakeWriter, and lib.rs: JloggerBuilder                *)
(***************************************************************************)

\* std::env::var("JLOGGER_LEVEL"): <<>> when the variable is not set (Err),
\* <<text>> when it is set to a Unicode text (Ok)
EnvUnset == <<>>

EnvSet(v) == <<v>>

NoThread == "none"

Threads == {"t1", "t2"}

\* std::thread::current().name(): t1 was spawned with a name, t2 without
ThreadName(t) == IF t = "t1" THEN <<"worker">> ELSE <<>>

\* the name of the process's executable
ExeName == "ex1"

\* the module paths events are emitted from (an event's target)
Targets == {"ex1", "ex1::net"}

LogTimeFormat == {"TimeStamp", "TimeLocal", "TimeNone"}

\* the bytes of the formatted line of event id: byte i of id is <<id, i>>
RecLen == 2

RecBytes(id) == [i \in 1..RecLen |-> <<id, i>>]

\* what was in the log file before the first process started
PriorBytes == << <<0, 1>> >>

NoLogger ==
    [installed |-> FALSE, log_file |-> NoFile, log_console |-> FALSE,
     max_level |-> "TraceOFF", with_target |-> FALSE, time_format |-> "TimeNone",
     system_start |-> 0, by |-> 0]

ThreadIdle ==
    [pc |-> "idle", w |-> JloggerWriter(NoFile, FALSE), rec |-> 0, pos |-> 0,
     write_file |-> 0]

\* JloggerBuilder::new(): the defaults
JloggerBuilderNew ==
    [max_level |-> "INFO", log_console |-> TRUE, log_file |-> FALSE,
     log_file_append |-> TRUE, log_runtime |-> FALSE, time_format |-> "TimeNone"]

\* the builder after its setters: max_level, log_console, log_file (file is
\* whether Some((path, append)) was given), log_runtime, log_time
Configured(max_level, log_console, file, append, log_runtime, time_format) ==
    [max_level |-> max_level, log_console |-> log_console,
     log_file |-> IF file THEN TRUE ELSE JloggerBuilderNew.log_file,
     log_file_append |-> IF file THEN append ELSE JloggerBuilderNew.log_file_append,
     log_runtime |-> log_runtime, time_format |-> time_format]

\* JloggerMakeWriter::make_writer
MakeWriter(mk) == JloggerWriter(mk.log_file, mk.log_console)

\* a bug that keeps the configured level whatever the environment says
EffectiveLevel_Static(mk, e) == mk.max_level

\* the level of make_writer_for: JLOGGER_LEVEL when set, else max_level
EffectiveLevel(mk, e) ==
    IF e # EnvUnset THEN TraceLevelFilterFrom(LevelFilterFromString(e[1]))
    ELSE mk.max_level

\* JloggerMakeWriter::make_writer_for
MakeWriterFor(mk, level, e) ==
    IF LevelLeFilter(level, EffectiveLevel(mk, e))
    THEN MakeWriter(mk)
    ELSE JloggerWriter(NoFile, FALSE)

\* std::env::set_var("JLOGGER_LEVEL", v) by the program or its operator
SetEnv(v) ==
    /\ env # EnvSet(v)
    /\ env' = EnvSet(v)
    /\ UNCHANGED <<logger, path, files, console, lock, thr, recs, bld, run>>
    /\ UNCHANGED hvars

\* std::env::remove_var("JLOGGER_LEVEL")
UnsetEnv ==
    /\ env # EnvUnset
    /\ env' = EnvUnset
    /\ UNCHANGED <<logger, path, files, console, lock, thr, recs, bld, run>>
    /\ UNCHANGED hvars

\* the most build() calls over all runs
MaxBuilds == 2

\* a bug that installs over a logger that is already there
InitResult_Replace(installed) == "installed"

\* tracing_subscriber's init(): the global default is set once, a second
\* registration panics
InitResult(installed) == IF installed THEN "panic_init" ELSE "installed"

\* if !self.log_file_append { let _ = fs::remove_file(log); }: the inode the
\* path names afterwards; rmOk tells whether the deletion, if tried, succeeds
PathAfterRemove(cfg, p, rmOk) ==
    IF cfg.log_file /\ ~cfg.log_file_append /\ p # NoFile /\ rmOk THEN NoFile ELSE p

\* JloggerBuilder::build on the builder cfg. openOk tells whether the open
\* succeeds, now and stat are what JloggerTimer::new finds.
Build(cfg, rmOk, openOk, now, stat) ==
    LET path1 == PathAfterRemove(cfg, path, rmOk)
        openFail == cfg.log_file /\ ~openOk
        creates == cfg.log_file /\ openOk /\ path1 = NoFile
        files1 == IF creates THEN Append(files, <<>>) ELSE files
        path2 == IF creates THEN Len(files) + 1 ELSE path1
        handle == IF cfg.log_file /\ openOk THEN path2 ELSE NoFile
        timer == JloggerTimerNew(now, stat)
        result == IF openFail THEN "panic_open"
                  ELSE IF timer.status # "ok" THEN "panic_timer"
                  ELSE InitResult(logger.installed)
    IN  /\ Len(bld) < MaxBuilds
        /\ path' = path2
        /\ files' = files1
        /\ logger' = IF result = "installed"
                     THEN [installed |-> TRUE, log_file |-> handle,
                           log_console |-> cfg.log_console,
                           max_level |-> TraceLevelFilterFrom(cfg.max_level),
                           with_target |-> cfg.log_runtime,
                           time_format |-> cfg.time_format,
                           system_start |-> timer.system_start,
                           by |-> Len(bld) + 1]
                     ELSE logger
        /\ bld' = Append(bld, [run |-> run, cfg |-> cfg, result |-> result,
                               prior |-> IF path = NoFile THEN <<>> ELSE files[path],
                               existed |-> path # NoFile, removed |-> path1 # path,
                               handle |-> handle])
        /\ lock' = IF result = "installed" THEN NoThread ELSE lock
        /\ UNCHANGED <<env, console, thr, recs, run>>
        /\ UNCHANGED hvars

\* the most events over all runs
MaxLogs == 2

\* the backbone formats the event: with_target(log_runtime) puts the event's
\* target in the line, nothing of the thread
FormatTag(mk, t, target) == IF mk.with_target THEN <<target>> ELSE <<>>

\* a thread emits an event at the given level from the given module: the
\* backbone (whose own filter is TRACE) formats it, asks make_writer_for for
\* a writer and starts write_all on the line
LogBegin(t, level, target) ==
    /\ logger.installed
    /\ thr[t].pc = "idle"
    /\ Len(recs) < MaxLogs
    /\ recs' = Append(recs,
                 [run |-> run, thread |-> t, level |-> level, target |-> target,
                  env |-> env, by |-> logger.by,
                  passed |-> LevelLeFilter(level, EffectiveLevel(logger, env)),
                  tag |-> FormatTag(logger, t, target),
                  status |-> "writing", fault |-> FALSE])
    /\ thr' = [thr EXCEPT ![t] =
                 [pc |-> "write", w |-> MakeWriterFor(logger, level, env),
                  rec |-> Len(recs) + 1, pos |-> 0, write_file |-> 0]]
    /\ UNCHANGED <<env, logger, path, files, console, lock, bld, run>>
    /\ UNCHANGED hvars

\* the bytes of the line write_all has still to hand to write
Remaining(t) == SubSeq(RecBytes(thr[t].rec), thr[t].pos + 1, RecLen)

\* fw.write(): the exclusive lock of the RwLock<File> is taken
WriterLock(t) ==
    /\ thr[t].pc = "write"
    /\ thr[t].w.log_file # NoFile
    /\ lock = NoThread
    /\ lock' = t
    /\ thr' = [thr EXCEPT ![t].pc = "locked"]
    /\ UNCHANGED <<env, logger, path, files, console, recs, bld, run>>
    /\ UNCHANGED hvars

\* .write(buf) on the file under the lock, which is dropped with the guard;
\* fres is what the file answers. An Err leaves write, and write_all, at once.
WriterFile(t, fres) ==
    /\ thr[t].pc = "locked"
    /\ lock = t
    /\ fres \in (0..Len(Remaining(t))) \cup {IoErr}
    /\ lock' = NoThread
    /\ files' = IF fres = IoErr THEN files
                ELSE [files EXCEPT ![thr[t].w.log_file] =
                        @ \o SubSeq(Remaining(t), 1, fres)]
    /\ IF fres = IoErr
       THEN /\ thr' = [thr EXCEPT ![t] = ThreadIdle]
            /\ recs' = [recs EXCEPT ![thr[t].rec].status = "error",
                                    ![thr[t].rec].fault = TRUE]
       ELSE /\ thr' = [thr EXCEPT ![t].pc = "console", ![t].write_file = fres]
            /\ recs' = [recs EXCEPT ![thr[t].rec].fault = @ \/ fres = 0]
    /\ UNCHANGED <<env, logger, path, console, bld, run>>
    /\ UNCHANGED hvars

\* log_file is None: map_or gives Ok(0)
WriterSkipFile(t) ==
    /\ thr[t].pc = "write"
    /\ thr[t].w.log_file = NoFile
    /\ thr' = [thr EXCEPT ![t].pc = "console", ![t].write_file = 0]
    /\ UNCHANGED <<env, logger, path, files, console, lock, recs, bld, run>>
    /\ UNCHANGED hvars

\* the rest of write: stderr's write if log_console (cres is what it
\* answers), the reported count, and write_all's step on that count
WriterConsole(t, cres) ==
    LET w == thr[t].w
        r == JloggerWriterWrite(w, Len(Remaining(t)), thr[t].write_file, cres)
        pos1 == thr[t].pos + r.n
    IN  /\ thr[t].pc = "console"
        /\ cres \in (0..Len(Remaining(t))) \cup {IoErr}
        /\ ~w.log_console => cres = 0
        /\ console' = console \o SubSeq(Remaining(t), 1, r.toConsole)
        /\ IF ~r.ok \/ r.n = 0
           THEN /\ thr' = [thr EXCEPT ![t] = ThreadIdle]
                /\ recs' = [recs EXCEPT ![thr[t].rec].status = "error",
                                        ![thr[t].rec].fault = TRUE]
           ELSE /\ thr' = [thr EXCEPT ![t] =
                             IF pos1 >= RecLen THEN ThreadIdle
                             ELSE [@ EXCEPT !.pc = "write", !.pos = pos1]]
                /\ recs' = [recs EXCEPT
                              ![thr[t].rec].status =
                                  IF pos1 >= RecLen THEN "done" ELSE @,
                              ![thr[t].rec].fault = @ \/ (w.log_console /\ cres = 0)]
        /\ UNCHANGED <<env, logger, path, files, lock, bld, run>>
        /\ UNCHANGED hvars

\* the most processes run one after the other
MaxRuns == 2

\* the process ends and the next one starts: nothing of the logger is
\* left, the files and the terminal stay
Exit ==
    /\ run < MaxRuns
    /\ run' = run + 1
    /\ logger' = NoLogger
    /\ lock' = NoThread
    /\ thr' = [t \in Threads |-> ThreadIdle]
    /\ UNCHANGED <<env, path, files, console, recs, bld>>
    /\ UNCHANGED hvars

(***************************************************************************)
(* The specifications                                                      *)
(***************************************************************************)

HarnessIdle ==
    /\ lv = LevelIdle
    /\ wr = WriteIdle
    /\ tm = TimerIdle

MainIdle ==
    /\ env = EnvUnset
    /\ logger = NoLogger
    /\ path = NoFile
    /\ files = <<>>
    /\ console = <<>>
    /\ lock = NoThread
    /\ thr = [t \in Threads |-> ThreadIdle]
    /\ recs = <<>>
    /\ bld = <<>>
    /\ run = 1

\* the level conversions on every pair of texts
InitLevel ==
    /\ lv \in {[LevelIdle EXCEPT !.pc = "start", !.s1 = a, !.s2 = b] :
                 a \in LevelTexts, b \in LevelTexts}
    /\ wr = WriteIdle
    /\ tm = TimerIdle
    /\ MainIdle

NextLevel ==
    \/ LevelParse
    \/ LevelInto

SpecLevel == InitLevel /\ [][NextLevel]_vars

\* one write and one flush on every writer, buffer length and pair of answers
InitWrite ==
    /\ \E f \in {NoFile, 1}, c \in BOOLEAN, n \in 0..MaxBuf :
         \E fr \in WriteOutcomes(n), cr \in WriteOutcomes(n) :
           wr = [WriteIdle EXCEPT !.pc = "start", !.w = JloggerWriter(f, c),
                                  !.buflen = n, !.fres = fr, !.cres = cr]
    /\ lv = LevelIdle
    /\ tm = TimerIdle
    /\ MainIdle

NextWrite ==
    \/ WriteCall
    \/ FlushCall

SpecWrite == InitWrite /\ [][NextWrite]_vars

\* JloggerTimer::new on every /proc/stat of up to MaxStatReads reads
InitTimer ==
    /\ \E n \in Nows, o \in BOOLEAN, rd \in SeqsUpTo(TimerReads, MaxStatReads) :
         tm = [TimerIdle EXCEPT !.pc = "start", !.now = n,
                                !.stat = [open |-> o, reads |-> rd]]
    /\ lv = LevelIdle
    /\ wr = WriteIdle
    /\ MainIdle

NextTimer == TimerNew

SpecTimer == InitTimer /\ [][NextTimer]_vars

(***************************************************************************)
(* Properties of the pure parts                                            *)
(***************************************************************************)

FileActive(w) == w.log_file # NoFile

Called == wr.pc \in {"written", "flushed"}

\* C3: with successful destination writes, write reports the minimum of
\* the two counts when both destinations are active, the one count when one
\* is active, and the buffer's length when none is.
WriteReportsMinOfActive ==
    (Called /\ wr.fres # IoErr /\ wr.cres # IoErr) =>
        /\ wr.ret.ok
        /\ wr.ret.n = IF FileActive(wr.w) /\ wr.w.log_console
                      THEN Min(wr.fres, wr.cres)
                      ELSE IF FileActive(wr.w) THEN wr.fres
                      ELSE IF wr.w.log_console THEN wr.cres
                      ELSE wr.buflen

\* C9: a failed write of an active destination makes write answer the
\* error, a failed flush of an active destination makes flush answer the
\* error, and flush answers Ok only when the file (if present) and the
\* console (if enabled) were flushed.
IoErrorsPropagate ==
    /\ Called =>
         (((FileActive(wr.w) /\ wr.fres = IoErr) \/ (wr.w.log_console /\ wr.cres = IoErr))
            => ~wr.ret.ok)
    /\ wr.pc = "flushed" =>
         /\ ((FileActive(wr.w) /\ ~wr.ffl) \/ (wr.w.log_console /\ ~wr.cfl)) => ~wr.fl.ok
         /\ wr.fl.ok => /\ FileActive(wr.w) => (wr.fl.file /\ wr.ffl)
                        /\ wr.w.log_console => (wr.fl.console /\ wr.cfl)

\* the console fails after the file took the bytes, and the file's flush fails
IoErrorsPropagateWitness ==
    /\ wr.pc = "flushed"
    /\ FileActive(wr.w) /\ wr.w.log_console
    /\ wr.buflen > 0 /\ wr.fres = wr.buflen /\ wr.cres = IoErr
    /\ ~wr.ret.ok
    /\ ~wr.ffl /\ ~wr.fl.ok

\* a well-formed btime line: it starts with btime and its second field is
\* an integer
WellFormedBtime(rd) ==
    /\ rd.err = "none"
    /\ StartsWith(rd.text, Btime)
    /\ Len(SplitWhitespace(rd.text)) >= 2
    /\ ParseI64(SplitWhitespace(rd.text)[2]).ok

\* C8: whatever /proc/stat holds, JloggerTimer::new raises no error, and
\* when it returns system_start is now unless a well-formed btime line is
\* there.
TimerNewNeverFails ==
    /\ tm.pc # "panicked"
    /\ tm.pc = "done" =>
         ((~tm.stat.open \/ \A i \in 1..Len(tm.stat.reads) : ~WellFormedBtime(tm.stat.reads[i]))
              => tm.res.system_start = tm.now)

\* the six tokens and the levels they name
LevelTokens ==
    {<<"off", "OFF">>, <<"error", "ERROR">>, <<"warn", "WARN">>, <<"info", "INFO">>,
     <<"debug", "DEBUG">>, <<"trace", "TRACE">>}

IsToken(s) == \E p \in LevelTokens : p[1] = s

NamedLevel(s) == IF IsToken(s) THEN (CHOOSE p \in LevelTokens : p[1] = s)[2] ELSE "OFF"

\* C10: every text is parsed to a level, a token to the level it names and
\* any other text to OFF; the conversion to the backbone's filter is
\* one-to-one and keeps the order; JLOGGER_LEVEL set to a text outside the
\* tokens gives the effective level OFF.
LevelParseTotal ==
    /\ lv.pc \in {"parsed", "done"} =>
         /\ lv.l1 \in LevelFilter /\ lv.l2 \in LevelFilter
         /\ lv.l1 = NamedLevel(lv.s1) /\ lv.l2 = NamedLevel(lv.s2)
    /\ lv.pc = "done" =>
         /\ lv.f1 \in TraceLevelFilter /\ lv.f2 \in TraceLevelFilter
         /\ lv.l1 # lv.l2 => lv.f1 # lv.f2
         /\ LevelFilterOrd(lv.l1) < LevelFilterOrd(lv.l2) => TraceFilterLt(lv.f1, lv.f2)
         /\ ~IsToken(lv.s1) =>
              \A f \in TraceLevelFilter :
                 EffectiveLevel([max_level |-> f], EnvSet(lv.s1)) = "TraceOFF"

\* DEBUG in capitals is parsed to OFF beside debug parsed to DEBUG
LevelParseTotalWitness ==
    /\ lv.pc = "done"
    /\ lv.s1 = "DEBUG" /\ lv.l1 = "OFF" /\ lv.f1 = "TraceOFF"
    /\ lv.s2 = "debug" /\ lv.l2 = "DEBUG" /\ lv.f2 = "TraceDEBUG"

(***************************************************************************)
(* The level gate: one thread, one build, the environment changing         *)
(***************************************************************************)

\* a /proc/stat as Linux writes it
GoodStat == [open |-> TRUE, reads |-> <<ReadLine(LineCpu), ReadLine(LineBtime)>>]

\* the wall clock of the builds of the program runs
BuildNow == CHOOSE n \in Nows : \A m \in Nows : n <= m

\* the values JLOGGER_LEVEL takes in the gate runs
GateEnvTexts == {"debug", "DEBUG"}

\* every static level, with the console alone or with the console and a file
GateCfgs ==
    {Configured(l, TRUE, f, TRUE, FALSE, "TimeNone") : l \in LevelFilter, f \in BOOLEAN}

GateSetEnv == \E v \in GateEnvTexts : SetEnv(v)

\* the program builds its logger once
GateBuild ==
    /\ ~logger.installed
    /\ \E cfg \in GateCfgs : Build(cfg, TRUE, TRUE, BuildNow, GoodStat)

GateLog == \E l \in Level : LogBegin("t1", l, "ex1")

\* the destinations take all they are given
GateFile == WriterFile("t1", Len(Remaining("t1")))

GateConsole ==
    WriterConsole("t1", IF thr["t1"].w.log_console THEN Len(Remaining("t1")) ELSE 0)

InitGate == HarnessIdle /\ MainIdle

NextGate ==
    \/ GateSetEnv
    \/ UnsetEnv
    \/ GateBuild
    \/ GateLog
    \/ WriterLock("t1")
    \/ GateFile
    \/ WriterSkipFile("t1")
    \/ GateConsole

SpecGate == InitGate /\ [][NextGate]_vars

(***************************************************************************)
(* Files over successive runs: one thread, the file as the destination     *)
(***************************************************************************)

\* the log path names no file, or a file holding PriorBytes
InitFs ==
    \/ path = NoFile /\ files = <<>>
    \/ path = 1 /\ files = <<PriorBytes>>

InitFile ==
    /\ HarnessIdle
    /\ env = EnvUnset
    /\ logger = NoLogger
    /\ InitFs
    /\ console = <<>>
    /\ lock = NoThread
    /\ thr = [t \in Threads |-> ThreadIdle]
    /\ recs = <<>>
    /\ bld = <<>>
    /\ run = 1

\* a file logger, appending or not
FileCfgs == {Configured("INFO", FALSE, TRUE, a, FALSE, "TimeNone") : a \in BOOLEAN}

\* each run builds until a logger is installed; the deletion and the open
\* succeed or fail
FileBuild ==
    /\ ~logger.installed
    /\ \E cfg \in FileCfgs, rmOk \in BOOLEAN, openOk \in BOOLEAN :
         Build(cfg, rmOk, openOk, BuildNow, GoodStat)

FileLog == \E l \in {"INFO", "DEBUG"} : LogBegin("t1", l, "ex1")

NextFile ==
    \/ FileBuild
    \/ FileLog
    \/ WriterLock("t1")
    \/ GateFile
    \/ WriterSkipFile("t1")
    \/ GateConsole
    \/ Exit

SpecFile == InitFile /\ [][NextFile]_vars

(***************************************************************************)
(* Concurrent events: two threads, partial writes                          *)
(***************************************************************************)

\* a file logger with or without the runtime tag
ConcCfgs == {Configured("INFO", FALSE, TRUE, TRUE, rt, "TimeNone") : rt \in BOOLEAN}

ConcBuild ==
    /\ ~logger.installed
    /\ \E cfg \in ConcCfgs : Build(cfg, TRUE, TRUE, BuildNow, GoodStat)

ConcLog == \E t \in Threads, target \in Targets : LogBegin(t, "INFO", target)

ConcLock == \E t \in Threads : WriterLock(t)

\* the file takes some or all of what it is given
ConcFile == \E t \in Threads, n \in 1..RecLen : WriterFile(t, n)

ConcConsole == \E t \in Threads : WriterConsole(t, 0)

NextConc ==
    \/ ConcBuild
    \/ ConcLog
    \/ ConcLock
    \/ ConcFile
    \/ ConcConsole

SpecConc == InitGate /\ [][NextConc]_vars

(***************************************************************************)
(* One record through write_all: one thread, both destinations, any counts *)
(***************************************************************************)

\* every choice of destinations
DeliverCfgs ==
    {Configured("INFO", c, f, TRUE, FALSE, "TimeNone") : c \in BOOLEAN, f \in BOOLEAN}

DeliverBuild ==
    /\ ~logger.installed
    /\ \E cfg \in DeliverCfgs : Build(cfg, TRUE, TRUE, BuildNow, GoodStat)

DeliverLog == \E l \in {"INFO", "DEBUG"} : LogBegin("t1", l, "ex1")

\* the file takes some or all of the bytes it is given
DeliverFile == \E n \in 1..RecLen : WriterFile("t1", n)

\* and so does the console, whatever the file took
DeliverConsole ==
    \E n \in 1..RecLen : WriterConsole("t1", IF thr["t1"].w.log_console THEN n ELSE 0)

NextDeliver ==
    \/ DeliverBuild
    \/ DeliverLog
    \/ WriterLock("t1")
    \/ DeliverFile
    \/ WriterSkipFile("t1")
    \/ DeliverConsole

SpecDeliver == InitGate /\ [][NextDeliver]_vars

(***************************************************************************)
(* The builder over the life of the processes                              *)
(***************************************************************************)

\* a /proc/stat whose btime line has no integer
BadStat == [open |-> TRUE, reads |-> <<ReadLine(LineCpu), ReadLine(LineBtimeWord)>>]

\* three builders that differ in level, destinations, tag and time format
SpecCfgs ==
    {Configured("INFO", TRUE, FALSE, TRUE, FALSE, "TimeNone"),
     Configured("DEBUG", FALSE, TRUE, FALSE, TRUE, "TimeStamp"),
     Configured("ERROR", TRUE, TRUE, TRUE, FALSE, "TimeLocal")}

\* build() is called at any time, by any code of the process
SpecBuild ==
    \E cfg \in SpecCfgs, rmOk \in BOOLEAN, openOk \in BOOLEAN, stat \in {GoodStat, BadStat} :
        Build(cfg, rmOk, openOk, BuildNow, stat)

SpecLog == LogBegin("t1", "ERROR", "ex1")

Init == InitFile

Next ==
    \/ SpecBuild
    \/ SpecLog
    \/ WriterLock("t1")
    \/ GateFile
    \/ WriterSkipFile("t1")
    \/ GateConsole
    \/ Exit

Spec == Init /\ [][Next]_vars

(***************************************************************************)
(* Properties of the logger                                                *)
(***************************************************************************)

\* the order of the levels, most severe first after OFF
LevelOrder == <<"OFF", "ERROR", "WARN", "INFO", "DEBUG", "TRACE">>

RankOf(l) == CHOOSE i \in 1..Len(LevelOrder) : LevelOrder[i] = l

AtLeastAsSevere(r, t) == RankOf(r) <= RankOf(t)

\* the effective threshold of an event: JLOGGER_LEVEL as it was when the
\* event was emitted, else the level given to the build that installed the
\* logger
Threshold(rec) ==
    IF rec.env # EnvUnset THEN NamedLevel(rec.env[1]) ELSE bld[rec.by].cfg.max_level

Passes(rec) == AtLeastAsSevere(rec.level, Threshold(rec))

Delivered(i, bytes) == \A k \in 1..RecLen : <<i, k>> \in Range(bytes)

NoByteOf(i, bytes) == \A k \in 1..Len(bytes) : bytes[k][1] # i

NoByteAnywhere(i) ==
    /\ NoByteOf(i, console)
    /\ \A f \in 1..Len(files) : NoByteOf(i, files[f])

\* C1: an event whose level is at least as severe as the effective
\* threshold has its bytes in every configured destination once its writes
\* have succeeded; any other event is given a writer with both destinations
\* disabled and no byte of it is in a file or on the console.
LevelGate ==
    \A i \in 1..Len(recs) :
        LET rec == recs[i]
            b == bld[rec.by]
        IN  /\ (Passes(rec) /\ rec.status = "done" /\ ~rec.fault) =>
                 /\ b.cfg.log_file => Delivered(i, files[b.handle])
                 /\ b.cfg.log_console => Delivered(i, console)
            /\ ~Passes(rec) =>
                 /\ NoByteAnywhere(i)
                 /\ \A t \in Threads :
                      thr[t].rec = i => thr[t].w = JloggerWriter(NoFile, FALSE)

\* at threshold WARN a WARN event is in the file and on the console and an
\* INFO event is nowhere; at threshold OFF an ERROR event is nowhere
LevelGateWitness ==
    \E i \in 1..Len(recs), j \in 1..Len(recs) :
        /\ recs[i].level = "WARN" /\ Threshold(recs[i]) = "WARN"
        /\ recs[i].status = "done"
        /\ bld[recs[i].by].cfg.log_file
        /\ Delivered(i, files[bld[recs[i].by].handle]) /\ Delivered(i, console)
        /\ recs[j].level = "INFO" /\ Threshold(recs[j]) = "WARN"
        /\ recs[j].status = "done"
        /\ NoByteAnywhere(j)

FileWritten(i) ==
    \/ recs[i].status = "done"
    \/ \E t \in Threads : thr[t].rec = i /\ thr[t].pc = "console"

RECURSIVE BytesOfLogger(_, _)
\* the bytes the logger installed by build by has written, in call order
BytesOfLogger(by, n) ==
    IF n = 0 THEN <<>>
    ELSE BytesOfLogger(by, n - 1) \o
         (IF recs[n].by = by /\ recs[n].passed /\ FileWritten(n) THEN RecBytes(n) ELSE <<>>)

\* C4: the file of a logger built with append=false holds the bytes written
\* by this logger and nothing else; built with append=true it holds what
\* the file held before, followed by the bytes written by this logger.
FileAppendSemantics ==
    (logger.installed /\ logger.log_file # NoFile) =>
        LET b == bld[logger.by]
        IN  /\ path = logger.log_file
            /\ files[path] = (IF b.cfg.log_file_append THEN b.prior ELSE <<>>)
                               \o BytesOfLogger(logger.by, Len(recs))

Contiguous(i, bytes) ==
    \A a \in 1..Len(bytes), c \in 1..Len(bytes) :
        (a < c /\ bytes[a][1] = i /\ bytes[c][1] = i) =>
            \A m \in a..c : bytes[m][1] = i

\* C5: at most one thread holds the file's write lock, no thread holds it
\* outside a write call, and the bytes of every event are one contiguous
\* run of the file.
AtomicLogCalls ==
    /\ Cardinality({t \in Threads : thr[t].pc = "locked"}) <= 1
    /\ \A t \in Threads : lock = t => thr[t].pc = "locked"
    /\ \A f \in 1..Len(files), i \in 1..Len(recs) : Contiguous(i, files[f])

\* the builds of this process that installed a logger
Installs == {k \in 1..Len(bld) : bld[k].run = run /\ bld[k].result = "installed"}

Fatal == {"panic_open", "panic_timer", "panic_init"}

\* C6: a process has at most one installed logger; each build() after the
\* one that installed it is fatal, and the installed logger keeps the level,
\* the destinations and the time format of that first build.
SingleGlobalLogger ==
    /\ Cardinality(Installs) <= 1
    /\ logger.installed <=> Installs # {}
    /\ \A k \in Installs :
         /\ \A j \in (k + 1)..Len(bld) : bld[j].run = run => bld[j].result \in Fatal
         /\ logger.by = k
         /\ \A l \in Level :
              LevelLeFilter(l, logger.max_level) <=> AtLeastAsSevere(l, bld[k].cfg.max_level)
         /\ logger.log_console = bld[k].cfg.log_console
         /\ (logger.log_file # NoFile) <=> bld[k].cfg.log_file
         /\ logger.log_file = bld[k].handle
         /\ logger.time_format = bld[k].cfg.time_format

\* a second build with another configuration has panicked at registration
\* and the first logger is still the installed one
SingleGlobalLoggerWitness ==
    /\ Len(bld) >= 2
    /\ bld[1].result = "installed"
    /\ bld[2].result = "panic_init"
    /\ bld[2].cfg.max_level # bld[1].cfg.max_level
    /\ bld[2].cfg.time_format # bld[1].cfg.time_format
    /\ logger.installed /\ logger.by = 1

\* the runtime tag the documentation describes
RuntimeName(t) == IF ThreadName(t) # <<>> THEN ThreadName(t)[1] ELSE ExeName

\* C7: with log_runtime(true) every line carries the emitting thread's
\* name, or the executable's name when the thread has none; with
\* log_runtime(false) it carries no tag.
RuntimeTagIsThreadName ==
    \A i \in 1..Len(recs) :
        recs[i].tag = IF bld[recs[i].by].cfg.log_runtime
                      THEN <<RuntimeName(recs[i].thread)>>
                      ELSE <<>>

\* the bytes of event i among bytes, in the order they are there
BytesOfEvent(i, bytes) == SelectSeq(bytes, LAMBDA b : b[1] = i)

\* C11: once write_all has had the whole line of an enabled event reported
\* written, whatever counts the file and the console answered with, the
\* file (if configured) and the console (if enabled) each hold the bytes of
\* the line exactly once and in order.
ExactlyOnceDelivery ==
    \A i \in 1..Len(recs) :
        LET rec == recs[i]
            b == bld[rec.by]
        IN  (rec.passed /\ rec.status = "done") =>
                /\ b.cfg.log_file => BytesOfEvent(i, files[b.handle]) = RecBytes(i)
                /\ b.cfg.log_console => BytesOfEvent(i, console) = RecBytes(i)

\* the build() calls of this process after the one that installed its logger
LaterBuilds == {j \in (logger.by + 1)..Len(bld) : bld[j].run = run}

\* C12: while a logger that writes to a file is installed, the later
\* build() calls of the process, which fail at registration, neither delete
\* nor replace the file at the log path: the path still names the file the
\* logger writes to, and every line the logger has written is in the file
\* at the path.
FailedBuildKeepsFile ==
    (/\ logger.installed
     /\ logger.log_file # NoFile
     /\ \A j \in LaterBuilds : bld[j].result = "panic_init") =>
        /\ \A j \in LaterBuilds : ~bld[j].removed
        /\ path = logger.log_file
        /\ \A i \in 1..Len(recs) :
             (recs[i].by = logger.by /\ recs[i].passed /\ recs[i].status = "done")
                 => Delivered(i, files[path])

====
